---- MODULE Spec2Model ----
(* Website generator endpoint: POST /generate with its model fallback loop, *)
(* fetchWithRetry and extractJSON, in the two variants of the repository    *)
(* (src/server.js and src/unnamed/part_000).                                *)
EXTENDS Integers, Sequences, FiniteSets, TLC

----------------------------------------------------------------------------
(* Bounds *)

\* longest text handed to extractJSON when it is checked on its own
MaxLen == 5
\* largest `retries` argument when fetchWithRetry is checked on its own
MaxRetries == 3
\* number of /generate requests that may be in flight
NumReqs == 2

Reqs == 1..NumReqs

----------------------------------------------------------------------------
(* Strings.  A text is a sequence of tokens: the two braces, the digits 0   *)
(* and 1, a blank, a letter of prose, and "M", which stands for the member  *)
(* list "html":"a","css":"b","js":"c" that the prompt asks for.             *)

Tokens == {"{", "}", "0", "1", " ", "x", "M"}
Digits == {"0", "1"}

RECURSIVE TextsOfLen(_)
TextsOfLen(n) ==
  IF n = 0 THEN {<<>>}
  ELSE {Append(s, t) : s \in TextsOfLen(n - 1), t \in Tokens}

Texts == UNION {TextsOfLen(n) : n \in 0..MaxLen}

\* String.prototype.indexOf: 0-based index of the first c, or -1
indexOf(s, c) ==
  IF \E p \in 1..Len(s) : s[p] = c
  THEN (CHOOSE p \in 1..Len(s) : s[p] = c /\ \A q \in 1..(p - 1) : s[q] # c) - 1
  ELSE -1

\* String.prototype.lastIndexOf: 0-based index of the last c, or -1
lastIndexOf(s, c) ==
  IF \E p \in 1..Len(s) : s[p] = c
  THEN (CHOOSE p \in 1..Len(s) : s[p] = c /\ \A q \in (p + 1)..Len(s) : s[q] # c) - 1
  ELSE -1

Clamp(x, n) == IF x < 0 THEN 0 ELSE IF x > n THEN n ELSE x

\* String.prototype.substring(a, b): both arguments are clamped to
\* [0, length] and swapped when a > b; the result is s[lo..hi-1] (0-based)
substring(s, a, b) ==
  LET ca == Clamp(a, Len(s))
      cb == Clamp(b, Len(s))
      lo == IF ca <= cb THEN ca ELSE cb
      hi == IF ca <= cb THEN cb ELSE ca
  IN SubSeq(s, lo + 1, hi)

----------------------------------------------------------------------------
(* JSON values and JSON.parse on token sequences *)

JNum(k) == [kind |-> "num", n |-> k, keys |-> {}, msg |-> ""]
JObj(ks) == [kind |-> "obj", n |-> 0, keys |-> ks, msg |-> ""]
JErr(text) == [kind |-> "obj", n |-> 0, keys |-> {"error"}, msg |-> text]
Thrown(text) == [kind |-> "throw", n |-> 0, keys |-> {}, msg |-> text]
Null == [kind |-> "null", n |-> 0, keys |-> {}, msg |-> ""]

SiteKeys == {"html", "css", "js"}

\* JavaScript truthiness of a parsed value
Truthy(v) == v.kind = "obj" \/ (v.kind = "num" /\ v.n # 0)

RECURSIVE StripLeft(_)
StripLeft(s) ==
  IF Len(s) > 0 /\ s[1] = " " THEN StripLeft(Tail(s)) ELSE s

RECURSIVE StripRight(_)
StripRight(s) ==
  IF Len(s) > 0 /\ s[Len(s)] = " " THEN StripRight(SubSeq(s, 1, Len(s) - 1)) ELSE s

Strip(s) == StripRight(StripLeft(s))

IsNumber(s) ==
  /\ Len(s) >= 1
  /\ \A p \in 1..Len(s) : s[p] \in Digits
  /\ (Len(s) = 1 \/ s[1] # "0")

RECURSIVE NumVal(_)
NumVal(s) ==
  IF Len(s) = 0 THEN 0
  ELSE 10 * NumVal(SubSeq(s, 1, Len(s) - 1)) + (IF s[Len(s)] = "1" THEN 1 ELSE 0)

IsObject(s) ==
  /\ Len(s) >= 2
  /\ s[1] = "{"
  /\ s[Len(s)] = "}"
  /\ Strip(SubSeq(s, 2, Len(s) - 1)) \in {<<>>, <<"M">>}

ObjectKeys(s) ==
  IF Strip(SubSeq(s, 2, Len(s) - 1)) = <<"M">> THEN SiteKeys ELSE {}

\* JSON.parse: blanks around the value are skipped; the value is a number
\* without a leading zero, or an object; anything else is a SyntaxError
JSONParse(s) ==
  LET value[t \in {Strip(s)}] ==
        IF IsNumber(t) THEN JNum(NumVal(t))
        ELSE IF IsObject(t) THEN JObj(ObjectKeys(t))
        ELSE Thrown("SyntaxError")
  IN value[Strip(s)]

ParseMsg(v, cause) ==
  IF v = "server" THEN "Failed to parse JSON from AI response." ELSE cause

\* extractJSON that cuts the text before the last "}"
extractJSON_ExclusiveEnd(v, text) ==
  LET start == indexOf(text, "{")
      end == lastIndexOf(text, "}")
  IN IF start = -1 \/ end = -1
     THEN Thrown(ParseMsg(v, "JSON not found in AI response"))
     ELSE LET r == JSONParse(substring(text, start, end))
          IN IF r.kind = "throw" THEN Thrown(ParseMsg(v, r.msg)) ELSE r

\* extractJSON(text) of variant v; the result is the parsed value or Thrown
\* extractJSON that tests start <= end in src/server.js only
extractJSON_OrderTestInServer(v, text) ==
  LET start == indexOf(text, "{")
      end == lastIndexOf(text, "}")
  IN IF start = -1 \/ end = -1
     THEN Thrown(ParseMsg(v, "JSON not found in AI response"))
     ELSE IF v = "server" /\ start > end
     THEN Thrown(ParseMsg(v, "JSON not found in AI response"))
     ELSE LET parse[s \in {substring(text, start, end + 1)}] == JSONParse(s)
              r == parse[substring(text, start, end + 1)]
          IN IF r.kind = "throw" THEN Thrown(ParseMsg(v, r.msg)) ELSE r

\* extractJSON(text) of either source file
extractJSON(v, text) ==
  LET start == indexOf(text, "{")
      end == lastIndexOf(text, "}")
  IN IF start = -1 \/ end = -1
     THEN Thrown(ParseMsg(v, "JSON not found in AI response"))
     ELSE LET parse[s \in {substring(text, start, end + 1)}] == JSONParse(s)
              r == parse[substring(text, start, end + 1)]
          IN IF r.kind = "throw" THEN Thrown(ParseMsg(v, r.msg)) ELSE r

----------------------------------------------------------------------------
(* Configuration and inputs *)

Variants == {"server", "part000"}

\* the model priority list of each variant
MODELS(v) ==
  IF v = "server"
  THEN <<"gemini-3.0", "gemini-2.5-flash-lite", "gemini-2.5-flash", "gemini-2.5-pro">>
  ELSE <<"gemini-2.5-flash-lite", "gemini-2.5-flash", "gemini-2.5-pro">>

\* default value of the `retries` parameter of fetchWithRetry
DefaultRetries == 3

\* process.env.GOOGLE_API_KEY: unset, set to the empty string, or set
KeyValues == {"undefined", "empty", "key"}
KeyTruthy_SetButEmpty(k) == k # "undefined"
KeyTruthy(k) == k = "key"

\* a field of the request body: absent, "", a non-empty string, the number
\* 0, a number other than 0
BodyValues == {"undefined", "empty", "str", "zero", "num"}
BodyTruthy_EmptyString(x) == x \in {"str", "num", "empty"}
BodyTruthy(x) == x \in {"str", "num"}
Bodies == [topic : BodyValues, prompt : BodyValues]

\* req.body.topic || req.body.prompt
TopicOf(b) == IF BodyTruthy(b.topic) THEN b.topic ELSE b.prompt

\* upstream statuses the transport may answer with
Statuses == {200, 429, 503, 500, 404}
IsOk(s) == s >= 200 /\ s <= 299

\* texts the provider may put at candidates[0].content.parts[0].text
HandlerTexts ==
  { <<>>,
    <<"{", "M", "}">>,
    <<"x", "{", "M", "}">>,
    <<"{", "}">>,
    <<"{", "x", "}">>,
    <<"x">>,
    <<"}", "0", "{">>,
    <<"}", "1", "{">> }

\* the body of a 2xx provider response: not JSON at all, JSON without the
\* nested text field, a text field that is not a string, or a text
Env(sh, t) == [shape |-> sh, text |-> t]
NoEnv == Env("none", <<>>)
Envelopes ==
  {Env("unreadable", <<>>), Env("nopath", <<>>), Env("nonstring", <<>>)}
    \cup {Env("text", t) : t \in HandlerTexts}

Response(s, e) == [status |-> s, env |-> e]
NoResp == Response(0, NoEnv)
Responses ==
  {Response(200, e) : e \in Envelopes}
    \cup {Response(s, NoEnv) : s \in Statuses \ {200}}

\* errors thrown by fetchWithRetry
Err(t, s, text) == [type |-> t, status |-> s, msg |-> text]
NoErr == Err("none", 0, "")
QuotaExceeded(v) ==
  Err("QuotaExceeded", 429,
      IF v = "server" THEN "Quota exceeded. Please try again later."
      ELSE "Quota exceeded. Try again later.")
UpstreamError(v, s) ==
  Err("UpstreamError", s,
      IF v = "server" THEN "Google API failed" ELSE "Google API error")
TransientExhausted(v) ==
  Err("TransientExhausted", 0,
      IF v = "server" THEN "Model overloaded after multiple retries."
      ELSE "Model overloaded after retries")

\* messages of the errors that reach the HTTP layer
KeyMissingMsg(v) ==
  IF v = "server" THEN "GOOGLE_API_KEY missing in .env" ELSE "GOOGLE_API_KEY missing"
TopicMissingMsg(v) ==
  IF v = "server" THEN "Topic or prompt is required." ELSE "Prompt required"
AllModelsMsg(v) ==
  IF v = "server" THEN "All Gemini models are unavailable or quota exhausted."
  ELSE "All Gemini models unavailable or quota exhausted"

\* lines 132-140 of the model loop: read the envelope, reach for the text
\* field and run extractJSON on it.  reason is "ok" when nothing threw.
Outcome(rs, val) == [reason |-> rs, value |-> val]
ModelOutcome(v, env) ==
  IF env.shape = "unreadable"
  THEN Outcome("Envelope", Thrown("invalid json response body"))
  ELSE IF v = "server" /\ (env.shape = "nopath" \/ (env.shape = "text" /\ env.text = <<>>))
  THEN Outcome("Envelope", Thrown("Invalid Gemini response structure."))
  ELSE IF env.shape = "nopath"
  THEN Outcome("Envelope", Thrown("TypeError"))
  ELSE IF env.shape = "nonstring"
  THEN Outcome("Parse", Thrown(ParseMsg(v, "TypeError")))
  ELSE LET x == extractJSON(v, env.text)
       IN Outcome(IF x.kind = "throw" THEN "Parse" ELSE "ok", x)

----------------------------------------------------------------------------
(* State *)

VARIABLES
  variant,        \* which source file runs
  models,         \* the model priority list the handler iterates
  twin,           \* TRUE when request 2 is handled by the other source file
  transport,      \* what the provider answers to the j-th request to model k
  apiKey,         \* process.env.GOOGLE_API_KEY
  body,           \* body[r]: the JSON body of request r
  pc,             \* pc[r]: where the handler of request r is suspended
  m,              \* m[r]: index in MODELS of the model being tried, 0 before the loop
  attempt,        \* attempt[r][k]: how the attempt at model k went
  finalResponse,  \* finalResponse[r]: `finalResponse` / `result` of the handler
  retries,        \* retries[r]: the `retries` argument of the running call
  i,              \* i[r]: the loop counter of fetchWithRetry
  statusLog,      \* statusLog[r]: statuses received in the running call
  delays,         \* delays[r]: delays taken in the running call
  resp,           \* resp[r]: the response fetchWithRetry returned
  err,            \* err[r]: the error fetchWithRetry threw
  sent,           \* sent[r]: outbound requests issued for request r
  httpStatus,     \* httpStatus[r]: status of the answer, 0 while unanswered
  httpBody,       \* httpBody[r]: JSON body of the answer
  answers,        \* answers[r]: how many answers were sent
  text,           \* argument of a direct extractJSON call
  parsed          \* its result

vars == <<variant, models, twin, transport, apiKey, body, pc, m, attempt, finalResponse, retries, i,
          statusLog, delays, resp, err, sent, httpStatus, httpBody, answers,
          text, parsed>>

configVars == <<variant, models, twin, transport, apiKey, body, text, parsed>>
loopVars == <<m, attempt, finalResponse>>
callVars == <<retries, i, statusLog, delays, resp, err, sent>>
httpVars == <<httpStatus, httpBody, answers>>

NotCalled == [kind |-> "none", n |-> 0, keys |-> {}, msg |-> ""]
ModelIdx == 1..Len(models)

\* the source file that handles request r
Other(v) == IF v = "server" THEN "part000" ELSE "server"
VariantOf(r) == IF twin /\ r = 2 THEN Other(variant) ELSE variant

\* a transport that may answer anything to any request
Live == [call \in {} |-> Responses]

\* the answers the transport may give to the outstanding request of r
Allowed(r) ==
  LET call == <<m[r], i[r] + 1>>
      own == <<r, m[r], i[r] + 1>>
  IN IF own \in DOMAIN transport THEN transport[own]
     ELSE IF call \in DOMAIN transport THEN transport[call]
     ELSE Responses
FailReasons ==
  {"QuotaExceeded", "TransientExhausted", "UpstreamError", "Envelope", "Parse"}

\* everything but the configuration, before any request is handled
Quiet(first) ==
  /\ pc = [r \in Reqs |-> first[r]]
  /\ m = [r \in Reqs |-> 0]
  /\ attempt = [r \in Reqs |-> [k \in ModelIdx |-> "untried"]]
  /\ finalResponse = [r \in Reqs |-> Null]
  /\ i = [r \in Reqs |-> 0]
  /\ statusLog = [r \in Reqs |-> <<>>]
  /\ delays = [r \in Reqs |-> 0]
  /\ resp = [r \in Reqs |-> NoResp]
  /\ err = [r \in Reqs |-> NoErr]
  /\ sent = [r \in Reqs |-> 0]
  /\ httpStatus = [r \in Reqs |-> 0]
  /\ httpBody = [r \in Reqs |-> Null]
  /\ answers = [r \in Reqs |-> 0]

\* one request has arrived at POST /generate
Init ==
  /\ variant \in Variants
  /\ models = MODELS(variant)
  /\ twin = FALSE
  /\ transport = Live
  /\ apiKey \in KeyValues
  /\ \E b \in Bodies : body = [r \in Reqs |-> b]
  /\ retries = [r \in Reqs |-> DefaultRetries]
  /\ text = <<>>
  /\ parsed = NotCalled
  /\ Quiet([r \in Reqs |-> IF r = 1 THEN "pending" ELSE "idle"])

----------------------------------------------------------------------------
(* fetchWithRetry *)

\* Call that leaves the loop counter of the previous call in place
Call_KeepCounter(r, n) ==
  /\ retries' = [retries EXCEPT ![r] = n]
  /\ statusLog' = [statusLog EXCEPT ![r] = <<>>]
  /\ delays' = [delays EXCEPT ![r] = 0]
  /\ resp' = [resp EXCEPT ![r] = NoResp]
  /\ IF 0 < n
     THEN /\ pc' = [pc EXCEPT ![r] = "fetching"]
          /\ sent' = [sent EXCEPT ![r] = @ + 1]
          /\ err' = [err EXCEPT ![r] = NoErr]
     ELSE /\ pc' = [pc EXCEPT ![r] = "thrown"]
          /\ err' = [err EXCEPT ![r] = TransientExhausted(VariantOf(r))]
          /\ UNCHANGED sent
  /\ UNCHANGED i

\* entry of fetchWithRetry(url, options, n): runs up to the first await
Call(r, n) ==
  /\ retries' = [retries EXCEPT ![r] = n]
  /\ i' = [i EXCEPT ![r] = 0]
  /\ statusLog' = [statusLog EXCEPT ![r] = <<>>]
  /\ delays' = [delays EXCEPT ![r] = 0]
  /\ resp' = [resp EXCEPT ![r] = NoResp]
  /\ IF 0 < n
     THEN /\ pc' = [pc EXCEPT ![r] = "fetching"]
          /\ sent' = [sent EXCEPT ![r] = @ + 1]
          /\ err' = [err EXCEPT ![r] = NoErr]
     ELSE /\ pc' = [pc EXCEPT ![r] = "thrown"]
          /\ err' = [err EXCEPT ![r] = TransientExhausted(VariantOf(r))]
          /\ UNCHANGED sent

\* a direct call of fetchWithRetry
FetchCall(r) ==
  /\ pc[r] = "call"
  /\ Call(r, retries[r])
  /\ UNCHANGED <<configVars, loopVars, httpVars>>

\* FetchRespond that sleeps before it looks at the status
FetchRespond_SleepFirst(r) ==
  /\ pc[r] = "fetching"
  /\ \E rsp \in Allowed(r) :
       /\ statusLog' = [statusLog EXCEPT ![r] = Append(@, rsp.status)]
       /\ delays' = [delays EXCEPT ![r] = @ + 1]
       /\ IF IsOk(rsp.status)
          THEN /\ pc' = [pc EXCEPT ![r] = "returned"]
               /\ resp' = [resp EXCEPT ![r] = rsp]
               /\ UNCHANGED err
          ELSE IF rsp.status = 429
          THEN /\ pc' = [pc EXCEPT ![r] = "thrown"]
               /\ err' = [err EXCEPT ![r] = QuotaExceeded(VariantOf(r))]
               /\ UNCHANGED resp
          ELSE IF rsp.status = 503
          THEN /\ pc' = [pc EXCEPT ![r] = "sleeping"]
               /\ UNCHANGED <<resp, err>>
          ELSE /\ pc' = [pc EXCEPT ![r] = "thrown"]
               /\ err' = [err EXCEPT ![r] = UpstreamError(VariantOf(r), rsp.status)]
               /\ UNCHANGED resp
  /\ UNCHANGED <<configVars, loopVars, httpVars, retries, i, sent>>

\* FetchRespond that retries a 429 like a 503
FetchRespond_RetryQuota(r) ==
  /\ pc[r] = "fetching"
  /\ \E rsp \in Allowed(r) :
       /\ statusLog' = [statusLog EXCEPT ![r] = Append(@, rsp.status)]
       /\ IF IsOk(rsp.status)
          THEN /\ pc' = [pc EXCEPT ![r] = "returned"]
               /\ resp' = [resp EXCEPT ![r] = rsp]
               /\ UNCHANGED <<err, delays>>
          ELSE IF rsp.status = 429 \/ rsp.status = 503
          THEN /\ pc' = [pc EXCEPT ![r] = "sleeping"]
               /\ delays' = [delays EXCEPT ![r] = @ + 1]
               /\ UNCHANGED <<resp, err>>
          ELSE /\ pc' = [pc EXCEPT ![r] = "thrown"]
               /\ err' = [err EXCEPT ![r] = UpstreamError(VariantOf(r), rsp.status)]
               /\ UNCHANGED <<resp, delays>>
  /\ UNCHANGED <<configVars, loopVars, httpVars, retries, i, sent>>

\* FetchRespond that retries every 5xx status
FetchRespond_Retry5xx(r) ==
  /\ pc[r] = "fetching"
  /\ \E rsp \in Allowed(r) :
       /\ statusLog' = [statusLog EXCEPT ![r] = Append(@, rsp.status)]
       /\ IF IsOk(rsp.status)
          THEN /\ pc' = [pc EXCEPT ![r] = "returned"]
               /\ resp' = [resp EXCEPT ![r] = rsp]
               /\ UNCHANGED <<err, delays>>
          ELSE IF rsp.status = 429
          THEN /\ pc' = [pc EXCEPT ![r] = "thrown"]
               /\ err' = [err EXCEPT ![r] = QuotaExceeded(VariantOf(r))]
               /\ UNCHANGED <<resp, delays>>
          ELSE IF rsp.status >= 500
          THEN /\ pc' = [pc EXCEPT ![r] = "sleeping"]
               /\ delays' = [delays EXCEPT ![r] = @ + 1]
               /\ UNCHANGED <<resp, err>>
          ELSE /\ pc' = [pc EXCEPT ![r] = "thrown"]
               /\ err' = [err EXCEPT ![r] = UpstreamError(VariantOf(r), rsp.status)]
               /\ UNCHANGED <<resp, delays>>
  /\ UNCHANGED <<configVars, loopVars, httpVars, retries, i, sent>>

\* FetchRespond that fails at once on the last 503, without the delay
FetchRespond_NoSleepOnLast(r) ==
  /\ pc[r] = "fetching"
  /\ \E rsp \in Allowed(r) :
       /\ statusLog' = [statusLog EXCEPT ![r] = Append(@, rsp.status)]
       /\ IF IsOk(rsp.status)
          THEN /\ pc' = [pc EXCEPT ![r] = "returned"]
               /\ resp' = [resp EXCEPT ![r] = rsp]
               /\ UNCHANGED <<err, delays>>
          ELSE IF rsp.status = 429
          THEN /\ pc' = [pc EXCEPT ![r] = "thrown"]
               /\ err' = [err EXCEPT ![r] = QuotaExceeded(VariantOf(r))]
               /\ UNCHANGED <<resp, delays>>
          ELSE IF rsp.status = 503 /\ i[r] + 1 < retries[r]
          THEN /\ pc' = [pc EXCEPT ![r] = "sleeping"]
               /\ delays' = [delays EXCEPT ![r] = @ + 1]
               /\ UNCHANGED <<resp, err>>
          ELSE IF rsp.status = 503
          THEN /\ pc' = [pc EXCEPT ![r] = "thrown"]
               /\ err' = [err EXCEPT ![r] = TransientExhausted(VariantOf(r))]
               /\ UNCHANGED <<resp, delays>>
          ELSE /\ pc' = [pc EXCEPT ![r] = "thrown"]
               /\ err' = [err EXCEPT ![r] = UpstreamError(VariantOf(r), rsp.status)]
               /\ UNCHANGED <<resp, delays>>
  /\ UNCHANGED <<configVars, loopVars, httpVars, retries, i, sent>>

\* the transport answers the outstanding request
FetchRespond(r) ==
  /\ pc[r] = "fetching"
  /\ \E rsp \in Allowed(r) :
       /\ statusLog' = [statusLog EXCEPT ![r] = Append(@, rsp.status)]
       /\ IF IsOk(rsp.status)
          THEN /\ pc' = [pc EXCEPT ![r] = "returned"]
               /\ resp' = [resp EXCEPT ![r] = rsp]
               /\ UNCHANGED <<err, delays>>
          ELSE IF rsp.status = 429
          THEN /\ pc' = [pc EXCEPT ![r] = "thrown"]
               /\ err' = [err EXCEPT ![r] = QuotaExceeded(VariantOf(r))]
               /\ UNCHANGED <<resp, delays>>
          ELSE IF rsp.status = 503
          THEN /\ pc' = [pc EXCEPT ![r] = "sleeping"]
               /\ delays' = [delays EXCEPT ![r] = @ + 1]
               /\ UNCHANGED <<resp, err>>
          ELSE /\ pc' = [pc EXCEPT ![r] = "thrown"]
               /\ err' = [err EXCEPT ![r] = UpstreamError(VariantOf(r), rsp.status)]
               /\ UNCHANGED <<resp, delays>>
  /\ UNCHANGED <<configVars, loopVars, httpVars, retries, i, sent>>

\* SleepDone whose loop test is i <= retries
SleepDone_OffByOne(r) ==
  /\ pc[r] = "sleeping"
  /\ i' = [i EXCEPT ![r] = @ + 1]
  /\ IF i[r] + 1 <= retries[r]
     THEN /\ pc' = [pc EXCEPT ![r] = "fetching"]
          /\ sent' = [sent EXCEPT ![r] = @ + 1]
          /\ UNCHANGED err
     ELSE /\ pc' = [pc EXCEPT ![r] = "thrown"]
          /\ err' = [err EXCEPT ![r] = TransientExhausted(VariantOf(r))]
          /\ UNCHANGED sent
  /\ UNCHANGED <<configVars, loopVars, httpVars, retries, statusLog, delays, resp>>

\* SleepDone that goes round the loop without counting
SleepDone_NoIncrement(r) ==
  /\ pc[r] = "sleeping"
  /\ pc' = [pc EXCEPT ![r] = "fetching"]
  /\ sent' = [sent EXCEPT ![r] = @ + 1]
  /\ UNCHANGED <<configVars, loopVars, httpVars, retries, i, statusLog, delays,
                 resp, err>>

\* SleepDone on a loop counter that all running calls share
SleepDone_SharedCounter(r) ==
  /\ pc[r] = "sleeping"
  /\ i' = [q \in Reqs |-> IF pc[q] \in {"fetching", "sleeping"} THEN i[q] + 1 ELSE i[q]]
  /\ IF i[r] + 1 < retries[r]
     THEN /\ pc' = [pc EXCEPT ![r] = "fetching"]
          /\ sent' = [sent EXCEPT ![r] = @ + 1]
          /\ UNCHANGED err
     ELSE /\ pc' = [pc EXCEPT ![r] = "thrown"]
          /\ err' = [err EXCEPT ![r] = TransientExhausted(VariantOf(r))]
          /\ UNCHANGED sent
  /\ UNCHANGED <<configVars, loopVars, httpVars, retries, statusLog, delays, resp>>

\* the delay after a 503 is over: i++, then the loop test
SleepDone(r) ==
  /\ pc[r] = "sleeping"
  /\ i' = [i EXCEPT ![r] = @ + 1]
  /\ IF i[r] + 1 < retries[r]
     THEN /\ pc' = [pc EXCEPT ![r] = "fetching"]
          /\ sent' = [sent EXCEPT ![r] = @ + 1]
          /\ UNCHANGED err
     ELSE /\ pc' = [pc EXCEPT ![r] = "thrown"]
          /\ err' = [err EXCEPT ![r] = TransientExhausted(VariantOf(r))]
          /\ UNCHANGED sent
  /\ UNCHANGED <<configVars, loopVars, httpVars, retries, statusLog, delays, resp>>

----------------------------------------------------------------------------
(* POST /generate *)

\* res.status(code).json(b)
Respond(r, code, b) ==
  /\ httpStatus' = [httpStatus EXCEPT ![r] = code]
  /\ httpBody' = [httpBody EXCEPT ![r] = b]
  /\ answers' = [answers EXCEPT ![r] = @ + 1]
  /\ pc' = [pc EXCEPT ![r] = "done"]

\* one iteration of the model loop begins: the request to model k goes out
TryModel(r, k, att) ==
  /\ m' = [m EXCEPT ![r] = k]
  /\ attempt' = [attempt EXCEPT ![r] = [att EXCEPT ![k] = "trying"]]
  /\ Call(r, DefaultRetries)
  /\ UNCHANGED <<finalResponse, httpVars>>

\* the code after the model loop
AfterLoop(r, att, fr) ==
  /\ attempt' = [attempt EXCEPT ![r] = att]
  /\ finalResponse' = [finalResponse EXCEPT ![r] = fr]
  /\ IF ~Truthy(fr)
     THEN Respond(r, 503, JErr(AllModelsMsg(VariantOf(r))))
     ELSE Respond(r, 200, fr)
  /\ UNCHANGED <<m, callVars>>

\* ModelFailed that rethrows a quota error instead of going on
ModelFailed_AbortOnQuota(r, reason) ==
  LET att == [attempt[r] EXCEPT ![m[r]] = reason]
  IN IF m[r] < Len(models) /\ reason # "QuotaExceeded"
     THEN TryModel(r, m[r] + 1, att)
     ELSE AfterLoop(r, att, finalResponse[r])

\* ModelFailed that rethrows the error of the last model of the list
ModelFailed_RethrowLast(r, reason) ==
  LET att == [attempt[r] EXCEPT ![m[r]] = reason]
      msg == IF pc[r] = "thrown" THEN err[r].msg
             ELSE ModelOutcome(VariantOf(r), resp[r].env).value.msg
  IN IF m[r] < Len(models)
     THEN TryModel(r, m[r] + 1, att)
     ELSE /\ attempt' = [attempt EXCEPT ![r] = att]
          /\ Respond(r, 503, JErr(msg))
          /\ UNCHANGED <<m, finalResponse, callVars>>

\* the catch block of the model loop, then the next iteration or the end
ModelFailed(r, reason) ==
  LET att == [attempt[r] EXCEPT ![m[r]] = reason]
  IN IF m[r] < Len(models)
     THEN TryModel(r, m[r] + 1, att)
     ELSE AfterLoop(r, att, finalResponse[r])

\* the handler from its entry to its first await
Generate(r) ==
  /\ pc[r] = "pending"
  /\ IF ~KeyTruthy(apiKey)
     THEN /\ Respond(r, 503, JErr(KeyMissingMsg(VariantOf(r))))
          /\ UNCHANGED <<loopVars, callVars>>
     ELSE IF ~BodyTruthy(TopicOf(body[r]))
     THEN /\ Respond(r, 400, JErr(TopicMissingMsg(VariantOf(r))))
          /\ UNCHANGED <<loopVars, callVars>>
     ELSE TryModel(r, 1, attempt[r])
  /\ UNCHANGED configVars

\* fetchWithRetry threw: the model loop catches it
HandleThrown(r) ==
  /\ pc[r] = "thrown"
  /\ ModelFailed(r, err[r].type)
  /\ UNCHANGED configVars

\* fetchWithRetry returned a response: envelope, extractJSON, break
HandleReturned(r) ==
  /\ pc[r] = "returned"
  /\ \E o \in {ModelOutcome(VariantOf(r), resp[r].env)} :
       IF o.reason = "ok"
       THEN AfterLoop(r, [attempt[r] EXCEPT ![m[r]] = "ok"], o.value)
       ELSE ModelFailed(r, o.reason)
  /\ UNCHANGED configVars

Next ==
  \E r \in Reqs :
    \/ Generate(r)
    \/ FetchRespond(r)
    \/ SleepDone(r)
    \/ HandleThrown(r)
    \/ HandleReturned(r)

Spec == Init /\ [][Next]_vars

\* the steps of the handler of request r
Step(r) ==
  \/ Generate(r)
  \/ FetchRespond(r)
  \/ SleepDone(r)
  \/ HandleThrown(r)
  \/ HandleReturned(r)

\* every request the handler can issue: the j-th request to model k
Calls == {<<k, j>> : k \in ModelIdx, j \in 1..DefaultRetries}

\* a transport that answers every request with one of the answers in rs
Answering(rs) == [call \in Calls |-> rs]

\* every status, with one envelope that can be used and one that cannot
LiveAnswers ==
  {Response(200, Env("text", <<"{", "M", "}">>)), Response(200, Env("nopath", <<>>))}
    \cup {Response(st, NoEnv) : st \in Statuses \ {200}}

InitLive ==
  /\ variant \in Variants
  /\ models = MODELS(variant)
  /\ twin = FALSE
  /\ transport = Answering(LiveAnswers)
  /\ apiKey \in KeyValues
  /\ \E b \in Bodies : body = [r \in Reqs |-> b]
  /\ retries = [r \in Reqs |-> DefaultRetries]
  /\ text = <<>>
  /\ parsed = NotCalled
  /\ Quiet([r \in Reqs |-> IF r = 1 THEN "pending" ELSE "idle"])

\* the event loop runs every continuation that is ready: each outbound
\* request is answered, each timer fires, each resolved await resumes
SpecLive == InitLive /\ [][Next]_vars /\ \A r \in Reqs : WF_vars(Step(r))

----------------------------------------------------------------------------
(* Several requests in flight at once.  Each request has its own body and   *)
(* its own upstream answers, fixed per outbound request, so that what a     *)
(* request does alone is determined by its input.                           *)

\* how a model answers: at once, after one 503, with 503 only, with 429
PlanKinds == {"ok", "late", "busy", "quota"}
Good == Response(200, Env("text", <<"{", "M", "}">>))
AnswerOf(p, j) ==
  IF p = "ok" THEN Good
  ELSE IF p = "late" THEN (IF j = 1 THEN Response(503, NoEnv) ELSE Good)
  ELSE IF p = "busy" THEN Response(503, NoEnv)
  ELSE Response(429, NoEnv)

\* any plan for the first model with the others answering at once, and
\* every model answering 503 only
ConcPlans ==
  {[k \in ModelIdx |-> IF k = 1 THEN p ELSE "ok"] : p \in PlanKinds}
    \cup {[k \in ModelIdx |-> "busy"]}

OwnCalls == {<<r, k, j>> : r \in Reqs, k \in ModelIdx, j \in 1..DefaultRetries}
Scripted(plan) ==
  [call \in OwnCalls |-> {AnswerOf(plan[call[1]][call[2]], call[3])}]

ConcBodies ==
  {[topic |-> "str", prompt |-> "undefined"],
   [topic |-> "undefined", prompt |-> "undefined"]}

\* every request has arrived and none has run yet
InitConc ==
  /\ variant \in Variants
  /\ models = MODELS(variant)
  /\ twin = FALSE
  /\ \E plan \in [Reqs -> ConcPlans] : transport = Scripted(plan)
  /\ apiKey \in {"undefined", "key"}
  /\ body \in [Reqs -> ConcBodies]
  /\ retries = [r \in Reqs |-> DefaultRetries]
  /\ text = <<>>
  /\ parsed = NotCalled
  /\ Quiet([r \in Reqs |-> "pending"])

\* the event loop runs one continuation at a time, in any order
SpecConc == InitConc /\ [][Next]_vars

----------------------------------------------------------------------------
(* The two source files side by side: request 1 is handled by one file and  *)
(* request 2 by the other, with the same model list, key and body, and the  *)
(* same upstream answer to the j-th request to model k.                     *)

\* what a model answers: n times 503, then `last`
Plan(n, last) == [n |-> n, last |-> last]
AnswerAt(plan, j) == IF j <= plan.n THEN Response(503, NoEnv) ELSE plan.last
Terminal == Responses \ {Response(503, NoEnv)}
FirstPlans ==
  {Plan(n, t) : n \in 0..(DefaultRetries - 1), t \in Terminal}
    \cup {Plan(DefaultRetries, Good)}
RestPlans ==
  {Plan(0, Good), Plan(DefaultRetries, Good),
   Plan(1, Response(200, Env("text", <<"}", "0", "{">>)))}
PairScript(first, rest) ==
  [call \in Calls |-> {AnswerAt(IF call[1] = 1 THEN first ELSE rest, call[2])}]

PairBodies ==
  {[topic |-> "str", prompt |-> "undefined"],
   [topic |-> "undefined", prompt |-> "str"],
   [topic |-> "zero", prompt |-> "empty"],
   [topic |-> "undefined", prompt |-> "undefined"]}

InitPair ==
  /\ variant \in Variants
  /\ models = MODELS(variant)
  /\ twin = TRUE
  /\ \E first \in FirstPlans, rest \in RestPlans : transport = PairScript(first, rest)
  /\ apiKey \in KeyValues
  /\ \E b \in PairBodies : body = [r \in Reqs |-> b]
  /\ retries = [r \in Reqs |-> DefaultRetries]
  /\ text = <<>>
  /\ parsed = NotCalled
  /\ Quiet([r \in Reqs |-> IF r <= 2 THEN "pending" ELSE "idle"])

SpecPair == InitPair /\ [][Next]_vars

----------------------------------------------------------------------------
(* fetchWithRetry called on its own, with any retries argument *)

InitFetch ==
  /\ variant \in Variants
  /\ models = MODELS(variant)
  /\ twin = FALSE
  /\ transport = Live
  /\ apiKey = "key"
  /\ body = [r \in Reqs |-> [topic |-> "str", prompt |-> "undefined"]]
  /\ \E n \in 0..MaxRetries :
       retries = [r \in Reqs |-> IF r = 1 THEN n ELSE DefaultRetries]
  /\ text = <<>>
  /\ parsed = NotCalled
  /\ Quiet([r \in Reqs |-> IF r = 1 THEN "call" ELSE "idle"])

NextFetch ==
  \E r \in Reqs :
    \/ FetchCall(r)
    \/ FetchRespond(r)
    \/ SleepDone(r)

SpecFetch == InitFetch /\ [][NextFetch]_vars

----------------------------------------------------------------------------
(* extractJSON called on its own, on every text up to MaxLen tokens *)

InitExtract ==
  /\ variant \in Variants
  /\ models = MODELS(variant)
  /\ twin = FALSE
  /\ transport = Live
  /\ apiKey = "key"
  /\ body = [r \in Reqs |-> [topic |-> "str", prompt |-> "undefined"]]
  /\ retries = [r \in Reqs |-> DefaultRetries]
  /\ text \in Texts
  /\ parsed = NotCalled
  /\ Quiet([r \in Reqs |-> "idle"])

Extract ==
  /\ parsed = NotCalled
  /\ parsed' = extractJSON(variant, text)
  /\ UNCHANGED <<variant, models, twin, transport, apiKey, body, text, pc,
                 loopVars, callVars, httpVars>>

NextExtract == Extract

SpecExtract == InitExtract /\ [][NextExtract]_vars

----------------------------------------------------------------------------
(* Properties *)

All503(log, n) == \A p \in 1..n : log[p] = 503
NoTopic(b) ==
  /\ b.topic \in {"undefined", "empty", "zero"}
  /\ b.prompt \in {"undefined", "empty", "zero"}
KeyMissing == apiKey \in {"undefined", "empty"}
IsErrorBody(b) == b.kind = "obj" /\ b.keys = {"error"} /\ b.msg # ""
AllExhausted(r) ==
  /\ httpStatus[r] = 503
  /\ httpBody[r] = JErr(AllModelsMsg(variant))

\* C1: the models are tried in the order of the list; whatever makes the
\* attempt at model k fail (an error thrown by fetchWithRetry, an envelope
\* that cannot be read, a text extractJSON rejects), the handler does not
\* answer but sends the request to model k+1 in the same step; and a model
\* is contacted only when every model before it has failed.
C1_InOrder ==
  \A r \in Reqs : \A k \in ModelIdx :
    attempt[r][k] # "untried" =>
      /\ k <= m[r]
      /\ \A j \in 1..(k - 1) : attempt[r][j] \in FailReasons
C1_Continue ==
  \A r \in Reqs :
    /\ (pc[r] = "thrown" /\ pc'[r] # "thrown") =>
         attempt'[r][m[r]] = err[r].type /\ err[r].type \in FailReasons
    /\ (pc[r] = "returned" /\ pc'[r] # "returned"
          /\ ModelOutcome(variant, resp[r].env).value.kind = "throw") =>
         attempt'[r][m[r]] \in FailReasons
    /\ \A k \in ModelIdx :
         (attempt[r][k] = "trying" /\ attempt'[r][k] \in FailReasons
            /\ k < Len(MODELS(variant))) =>
           /\ m'[r] = k + 1
           /\ attempt'[r][k + 1] = "trying"
           /\ pc'[r] = "fetching"
           /\ sent'[r] = sent[r] + 1
           /\ httpStatus'[r] = 0
C1_InOrderNeverAbort == [][C1_InOrder' /\ C1_Continue]_vars
C1_Witness ==
  \E r \in Reqs :
    /\ variant = "server"
    /\ attempt[r][1] = "QuotaExceeded"
    /\ attempt[r][2] = "TransientExhausted"
    /\ attempt[r][3] = "Parse"
    /\ attempt[r][4] = "ok"
    /\ httpStatus[r] = 200

\* C2: once the attempt at a model has gone through without an error (2xx,
\* envelope read, extractJSON returned), the answer is 200 with the value
\* extractJSON returned for that model and no later model is contacted.
C2_StopAtFirstSuccess ==
  \A r \in Reqs : \A k \in ModelIdx :
    attempt[r][k] = "ok" =>
      /\ pc[r] = "done"
      /\ httpStatus[r] = 200
      /\ httpBody[r] = extractJSON(variant, resp[r].env.text)
      /\ \A j \in ModelIdx : j > k => attempt[r][j] = "untried"

\* C3: the answer is the 503 "All Gemini models ... unavailable or quota
\* exhausted" exactly when every model of the list was attempted and
\* failed; it is never given after an attempt that went through.
C3_ExhaustedIffAllFailed ==
  \A r \in Reqs :
    /\ AllExhausted(r) => \A k \in ModelIdx : attempt[r][k] \in FailReasons
    /\ (\A k \in ModelIdx : attempt[r][k] \in FailReasons) => AllExhausted(r)
    /\ AllExhausted(r) => ~ \E k \in ModelIdx : attempt[r][k] = "ok"

\* C4: when the transport has answered 503 k times (k < retries) and then
\* 2xx, fetchWithRetry has returned that response after k+1 requests and k
\* delays (k = 0: at once, without a delay).
C4_RetryThenSuccess ==
  \A r \in Reqs : \A k \in 0..(retries[r] - 1) :
    (/\ Len(statusLog[r]) = k + 1
     /\ All503(statusLog[r], k)
     /\ IsOk(statusLog[r][k + 1])) =>
      /\ pc[r] = "returned"
      /\ resp[r].status = statusLog[r][k + 1]
      /\ sent[r] = k + 1
      /\ delays[r] = k
C4_Witness ==
  \E r \in Reqs :
    /\ retries[r] = 3
    /\ statusLog[r] = <<503, 503, 200>>
    /\ pc[r] = "returned"

\* C5: a call never issues more than `retries` requests, and when every
\* one of the `retries` requests was answered 503 the call fails with the
\* "Model overloaded after ... retries" error after exactly `retries`
\* requests.
C5_Exhausted ==
  \A r \in Reqs :
    /\ sent[r] <= retries[r]
    /\ (/\ pc[r] \notin {"idle", "call", "sleeping"}
        /\ Len(statusLog[r]) = retries[r]
        /\ All503(statusLog[r], retries[r])) =>
         /\ pc[r] = "thrown"
         /\ err[r].type = "TransientExhausted"
         /\ err[r].msg \in {"Model overloaded after multiple retries.",
                            "Model overloaded after retries"}
         /\ sent[r] = retries[r]
C5_Witness ==
  \E r \in Reqs :
    /\ retries[r] = 3
    /\ statusLog[r] = <<503, 503, 503>>
    /\ pc[r] = "thrown"
    /\ sent[r] = 3

\* C6: a 429 ends the call at once with the quota error: it is the last
\* status of the call, no request and no delay follows it, whether it is
\* the first answer or comes after 503s.
C6_QuotaImmediate ==
  \A r \in Reqs : \A p \in 1..Len(statusLog[r]) :
    statusLog[r][p] = 429 =>
      /\ p = Len(statusLog[r])
      /\ pc[r] = "thrown"
      /\ err[r].type = "QuotaExceeded"
      /\ sent[r] = p
      /\ delays[r] = p - 1
      /\ All503(statusLog[r], p - 1)
C6_Witness ==
  \E r \in Reqs :
    /\ statusLog[r] = <<503, 429>>
    /\ pc[r] = "thrown"
    /\ sent[r] = 2

\* C7 as stated: in every configuration a body with neither a non-empty
\* topic nor a non-empty prompt (each absent or falsy) is answered 400 with the error "Topic or
\* prompt is required." and no outbound request is made.
C7_Always400 ==
  \A r \in Reqs :
    NoTopic(body[r]) =>
      /\ sent[r] = 0
      /\ pc[r] = "done" =>
           /\ httpStatus[r] = 400
           /\ httpBody[r] = JErr("Topic or prompt is required.")

\* C7 as amended: such a body never causes an outbound request; when the
\* API key is set it is answered 400 with an error body, whose message is
\* "Topic or prompt is required." in server.js and "Prompt required" in the
\* other variant.
C7_400WhenKeySet ==
  \A r \in Reqs :
    NoTopic(body[r]) =>
      /\ sent[r] = 0
      /\ m[r] = 0
      /\ (pc[r] = "done" /\ apiKey = "key") =>
           /\ httpStatus[r] = 400
           /\ httpBody[r] =
                JErr(IF variant = "server" THEN "Topic or prompt is required."
                     ELSE "Prompt required")
C7_Witness ==
  \E r \in Reqs :
    /\ apiKey = "key"
    /\ body[r] = [topic |-> "empty", prompt |-> "undefined"]
    /\ pc[r] = "done"
    /\ httpStatus[r] = 400

\* C8: without GOOGLE_API_KEY the request is answered 503 with an error
\* body naming the missing key; no model is attempted and no outbound
\* request is made.
C8_KeyMissing ==
  \A r \in Reqs :
    KeyMissing =>
      /\ sent[r] = 0
      /\ m[r] = 0
      /\ \A k \in ModelIdx : attempt[r][k] = "untried"
      /\ pc[r] \in {"idle", "pending", "done"}
      /\ pc[r] = "done" =>
           /\ httpStatus[r] = 503
           /\ IsErrorBody(httpBody[r])
           /\ httpBody[r].msg = KeyMissingMsg(variant)
C8_Witness ==
  \E r \in Reqs :
    /\ apiKey = "empty"
    /\ body[r].topic = "str"
    /\ pc[r] = "done"
    /\ httpStatus[r] = 503

\* C9: every 200 answer carries an object with the html, css and js
\* fields, and every answer is either such a 200 or an error.
C9_CompleteSite ==
  \A r \in Reqs :
    pc[r] = "done" =>
      \/ /\ httpStatus[r] = 200
         /\ httpBody[r].kind = "obj"
         /\ httpBody[r].keys = SiteKeys
      \/ /\ httpStatus[r] \in {400, 503}
         /\ IsErrorBody(httpBody[r])

\* C10: extractJSON fails when the first "{" of the text lies after its
\* last "}".
C10_BracesOutOfOrder ==
  (/\ parsed # NotCalled
   /\ indexOf(text, "{") # -1
   /\ lastIndexOf(text, "}") # -1
   /\ indexOf(text, "{") > lastIndexOf(text, "}")) =>
    parsed.kind = "throw"


\* the tokens of t from its first "{" to its last "}", both included;
\* empty when either is missing or the "{" comes after the "}"
Span(t) == SubSeq(t, indexOf(t, "{") + 1, lastIndexOf(t, "}") + 1)
ValidJSON(t) == JSONParse(t).kind # "throw"

\* C11: extractJSON fails, and returns no value, when the text has no "{",
\* or no "}", or when its tokens from the first "{" to the last "}" are
\* not valid JSON.
C11_ParseErrorCases ==
  (/\ parsed # NotCalled
   /\ \/ indexOf(text, "{") = -1
      \/ lastIndexOf(text, "}") = -1
      \/ ~ValidJSON(Span(text))) =>
    parsed.kind = "throw"

Opens(t, n) == Cardinality({j \in 1..n : t[j] = "{"})
Closes(t, n) == Cardinality({j \in 1..n : t[j] = "}"})
Balanced(t) ==
  /\ \A n \in 1..Len(t) : Opens(t, n) >= Closes(t, n)
  /\ Opens(t, Len(t)) = Closes(t, Len(t))
HasBalancedSpan(t) ==
  \E p \in 1..Len(t) : \E q \in (p + 1)..Len(t) :
    t[p] = "{" /\ t[q] = "}" /\ Balanced(SubSeq(t, p, q))

\* C12 as stated: for every non-empty text with a balanced {...} span,
\* extractJSON returns the object parsed from the first "{" to the last "}".
C12_BalancedSpanParsed ==
  (/\ parsed # NotCalled
   /\ Len(text) > 0
   /\ HasBalancedSpan(text)) =>
    /\ parsed.kind = "obj"
    /\ parsed = JSONParse(Span(text))

\* C12 as amended: when the first "{" comes before the last "}" and the
\* tokens from the one to the other are valid JSON, extractJSON returns the
\* object parsed from them, whatever prose surrounds them.
C12_ValidSpanParsed ==
  (/\ parsed # NotCalled
   /\ indexOf(text, "{") # -1
   /\ indexOf(text, "{") < lastIndexOf(text, "}")
   /\ ValidJSON(Span(text))) =>
    /\ parsed.kind = "obj"
    /\ parsed = JSONParse(Span(text))
C12_Witness ==
  /\ text = <<"x", "{", "M", "}", "x">>
  /\ parsed = JObj(SiteKeys)


\* C13: a request whose topic (topic, else prompt) is anything but a
\* non-empty string is rejected before any outbound request.
C13_NonStringRejected ==
  \A r \in Reqs :
    TopicOf(body[r]) # "str" =>
      /\ sent[r] = 0
      /\ m[r] = 0
      /\ pc[r] = "done" => httpStatus[r] \in {400, 503}

IsOther(st) == ~IsOk(st) /\ st \notin {429, 503}

\* C14: a status that is neither 2xx nor 429 nor 503 ends the call at once
\* with the upstream error carrying that status: it is the last status of
\* the call and no request and no delay follows it, however many retries
\* are left.
C14_OtherTerminal ==
  \A r \in Reqs : \A p \in 1..Len(statusLog[r]) :
    IsOther(statusLog[r][p]) =>
      /\ p = Len(statusLog[r])
      /\ pc[r] = "thrown"
      /\ err[r].type = "UpstreamError"
      /\ err[r].status = statusLog[r][p]
      /\ sent[r] = p
      /\ delays[r] = p - 1
      /\ All503(statusLog[r], p - 1)
C14_Witness ==
  \E r \in Reqs :
    /\ retries[r] = 3
    /\ statusLog[r] = <<503, 500>>
    /\ pc[r] = "thrown"
    /\ sent[r] = 2

PerModelMessages ==
  { "Quota exceeded. Please try again later.", "Quota exceeded. Try again later.",
    "Google API failed", "Google API error",
    "Model overloaded after multiple retries.", "Model overloaded after retries",
    "Invalid Gemini response structure.", "invalid json response body",
    "Failed to parse JSON from AI response.", "JSON not found in AI response",
    "SyntaxError", "TypeError" }

\* C15: a request that passed the key and topic checks and is answered
\* with a failure gets the 503 with the all-models message; no message of
\* a failure at one model ever reaches the answer.
C15_OnlyAggregate ==
  \A r \in Reqs :
    (/\ apiKey = "key"
     /\ body[r].topic \in {"str", "num"} \/ body[r].prompt \in {"str", "num"}
     /\ pc[r] = "done"
     /\ httpStatus[r] # 200) =>
      /\ httpStatus[r] = 503
      /\ httpBody[r] = JErr(AllModelsMsg(variant))
      /\ httpBody[r].msg \notin PerModelMessages
C15_Witness ==
  \E r \in Reqs :
    /\ variant = "part000"
    /\ attempt[r][1] = "QuotaExceeded"
    /\ attempt[r][2] = "UpstreamError"
    /\ attempt[r][3] = "Parse"
    /\ pc[r] = "done"
    /\ httpStatus[r] = 503

\* requests issued by the running call of fetchWithRetry
CallRequests(r) == Len(statusLog[r]) + (IF pc[r] = "fetching" THEN 1 ELSE 0)

\* C18: one request to /generate causes at most (number of models) x
\* retries outbound requests (12 in server.js, 9 in the other variant), no
\* model receives more than `retries` of them, and every model starts with
\* a fresh retry counter.
C18_Budget ==
  \A r \in Reqs :
    /\ sent[r] <= Len(models) * DefaultRetries
    /\ sent[r] <= (IF variant = "server" THEN 12 ELSE 9)
    /\ CallRequests(r) <= DefaultRetries
    /\ m[r] >= 1 => sent[r] <= (m[r] - 1) * DefaultRetries + CallRequests(r)
    /\ pc[r] = "fetching" => i[r] = Len(statusLog[r]) /\ i[r] < retries[r]
C18_Fresh ==
  \A r \in Reqs :
    /\ m'[r] # m[r] =>
         /\ m'[r] = m[r] + 1
         /\ i'[r] = 0
         /\ statusLog'[r] = <<>>
         /\ retries'[r] = DefaultRetries
         /\ pc'[r] = "fetching"
    /\ sent'[r] # sent[r] => sent'[r] = sent[r] + 1 /\ pc'[r] = "fetching"
    /\ (pc'[r] = "fetching" /\ pc[r] # "fetching") => sent'[r] = sent[r] + 1
C18_RequestBudget == [][C18_Budget' /\ C18_Fresh]_vars
C18_Witness ==
  \E r \in Reqs :
    /\ variant = "server"
    /\ \A k \in ModelIdx : attempt[r][k] = "TransientExhausted"
    /\ sent[r] = 12
    /\ pc[r] = "done"

Count503(log) == Cardinality({p \in 1..Len(log) : log[p] = 503})

\* C19: the delays taken in a call are as many as the 503 answers it
\* received; a call that only sees 503 sleeps `retries` times before it
\* fails, and no request follows the last delay.
C19_Delays ==
  \A r \in Reqs :
    /\ delays[r] = Count503(statusLog[r])
    /\ (pc[r] = "thrown" /\ err[r].type = "TransientExhausted") =>
         /\ delays[r] = retries[r]
         /\ sent[r] = retries[r]
         /\ Len(statusLog[r]) = retries[r]
C19_NoRequestAfterLastDelay ==
  \A r \in Reqs :
    (pc[r] = "sleeping" /\ Len(statusLog[r]) = retries[r] /\ pc'[r] # "sleeping") =>
      /\ pc'[r] = "thrown"
      /\ sent'[r] = sent[r]
C19_DelayPer503 == [][C19_Delays' /\ C19_NoRequestAfterLastDelay]_vars
C19_Witness ==
  \E r \in Reqs :
    /\ retries[r] = 3
    /\ statusLog[r] = <<503, 503, 503>>
    /\ pc[r] = "thrown"
    /\ delays[r] = 3


\* an upper bound on the steps the handler of r still takes
StepsLeft(r) ==
  LET perModel == 2 * DefaultRetries + 1
      inCall == IF pc[r] = "fetching" THEN 2 * (retries[r] - i[r]) + 1
                ELSE IF pc[r] = "sleeping" THEN 2 * (retries[r] - i[r])
                ELSE 1
  IN IF pc[r] \in {"idle", "done"} THEN 0
     ELSE IF pc[r] = "pending" THEN 1 + perModel * Len(models)
     ELSE perModel * (Len(models) - m[r]) + inCall

\* C17: a request is answered once, with 200, 400 or 503, and the answer
\* is never replaced; every step of the handler brings it nearer to the
\* answer, so that a request whose outbound requests are all answered is
\* answered.
C17_Once ==
  \A r \in Reqs :
    /\ answers[r] <= 1
    /\ pc[r] = "done" <=> answers[r] = 1
    /\ answers[r] = 1 => httpStatus[r] \in {200, 400, 503}
    /\ answers[r] = 0 => httpStatus[r] = 0
    /\ StepsLeft(r) >= 0
C17_Progress ==
  \A r \in Reqs :
    /\ answers[r] = 1 =>
         /\ answers'[r] = 1
         /\ httpStatus'[r] = httpStatus[r]
         /\ httpBody'[r] = httpBody[r]
         /\ sent'[r] = sent[r]
    /\ StepsLeft(r)' <= StepsLeft(r)
    /\ pc'[r] # pc[r] => StepsLeft(r)' < StepsLeft(r)
C17_AnsweredOnce ==
  /\ []C17_Once
  /\ [][C17_Progress]_vars
  /\ \A r \in Reqs : pc[r] = "pending" ~> pc[r] = "done"
C17_Witness ==
  \E r \in Reqs :
    /\ pc[r] = "done"
    /\ answers[r] = 1
    /\ httpStatus[r] = 200
    /\ attempt[r][1] = "TransientExhausted"
    /\ attempt[r][2] = "ok"

\* what the handler of request r holds
Local(r) ==
  <<pc[r], m[r], attempt[r], finalResponse[r], retries[r], i[r], statusLog[r],
    delays[r], resp[r], err[r], sent[r], httpStatus[r], httpBody[r], answers[r]>>
\* where the handler of request r is: suspension point, model, retry counter
Position(r) == <<pc[r], m[r], i[r]>>
OwnScript(r) ==
  [k \in ModelIdx |-> [j \in 1..DefaultRetries |-> transport[<<r, k, j>>]]]
OwnPlan(r) ==
  [k \in ModelIdx |->
     CHOOSE p \in PlanKinds :
       \A j \in 1..DefaultRetries : transport[<<r, k, j>>] = {AnswerOf(p, j)}]
PlanReason(p) ==
  IF p \in {"ok", "late"} THEN "ok"
  ELSE IF p = "busy" THEN "TransientExhausted"
  ELSE "QuotaExceeded"
PlanCalls(p) ==
  IF p = "late" THEN 2 ELSE IF p = "busy" THEN DefaultRetries ELSE 1
\* the models a request reaches: all up to the first one that answers
Reached(pl, k) == \A j \in 1..(k - 1) : PlanReason(pl[j]) # "ok"
RECURSIVE SentUpTo(_, _)
SentUpTo(pl, k) ==
  IF k = 0 THEN 0
  ELSE SentUpTo(pl, k - 1) + (IF Reached(pl, k) THEN PlanCalls(pl[k]) ELSE 0)

\* C16: requests in flight together do not interfere.  A step is the step
\* of one request and changes nothing another request holds and nothing the
\* process holds; two requests with the same input and the same upstream
\* answers are in the same state whenever they are at the same place,
\* however their steps are interleaved with each other and with others;
\* and the attempts, the number of outbound requests and the answer of a
\* finished request are the ones its own input and its own upstream
\* answers determine.
C16_Frame ==
  /\ configVars' = configVars
  /\ \E r \in Reqs : \A q \in Reqs \ {r} : Local(q)' = Local(q)
C16_SamePlace ==
  \A r, q \in Reqs :
    (body[r] = body[q] /\ OwnScript(r) = OwnScript(q) /\ Position(r) = Position(q))
      => Local(r) = Local(q)
C16_OwnInput ==
  \A r \in Reqs :
    pc[r] = "done" =>
      IF apiKey = "undefined" THEN httpStatus[r] = 503 /\ sent[r] = 0
      ELSE IF body[r].topic = "undefined" THEN httpStatus[r] = 400 /\ sent[r] = 0
      ELSE LET pl == OwnPlan(r)
           IN /\ \A k \in ModelIdx :
                   attempt[r][k] = IF Reached(pl, k) THEN PlanReason(pl[k]) ELSE "untried"
              /\ sent[r] = SentUpTo(pl, Len(models))
              /\ httpStatus[r] = IF \E k \in ModelIdx : PlanReason(pl[k]) = "ok"
                                 THEN 200 ELSE 503
C16_NoInterference ==
  /\ [](C16_SamePlace /\ C16_OwnInput)
  /\ [][C16_Frame]_vars
\* two requests with different upstream answers are both in the middle of
\* a call: one is in its backoff delay, the other waits for its second model
C16_Witness ==
  \E r, q \in Reqs :
    /\ r # q
    /\ pc[r] = "sleeping" /\ m[r] = 1 /\ i[r] = 1
    /\ pc[q] = "fetching" /\ m[q] = 2 /\ attempt[q][1] = "QuotaExceeded"

\* C20: the two source files, run with the same model list, key, body and
\* upstream answers, issue the same outbound requests in the same order
\* (their n-th outbound request is the same attempt at the same model, after
\* the same statuses and delays), take the same delays, and send the same
\* status with the same number of outbound requests and, when the status is
\* 200, the same body.
C20_SameDesign ==
  twin =>
    /\ (sent[1] = sent[2] /\ pc[1] = pc[2] /\ pc[1] \in {"fetching", "sleeping"}) =>
         /\ m[1] = m[2]
         /\ i[1] = i[2]
         /\ statusLog[1] = statusLog[2]
         /\ delays[1] = delays[2]
    /\ (pc[1] = "done" /\ pc[2] = "done") =>
         /\ httpStatus[1] = httpStatus[2]
         /\ sent[1] = sent[2]
         /\ m[1] = m[2]
         /\ httpStatus[1] = 200 => httpBody[1] = httpBody[2]
\* both files fell through to the second model, one on its envelope test
\* and one on a TypeError, and answered 200 from there
C20_Witness ==
  /\ twin
  /\ pc[1] = "done" /\ pc[2] = "done"
  /\ httpStatus[1] = 200 /\ httpStatus[2] = 200
  /\ attempt[1][1] # attempt[2][1]
  /\ attempt[1][2] = "ok" /\ attempt[2][2] = "ok"
  /\ sent[1] >= 2

====
